---- MODULE Spec2Model ----
(***************************************************************************)
(* Model of the keycloak credential lifecycle of flexys/rust-libraries:    *)
(*   keycloak/src/lib.rs        KeycloakToken, KeycloakConfig              *)
(*   keycloak/src/retrieval.rs  calculate_token_expiry,                    *)
(*                              retrieve_keycloak_token,                   *)
(*                              keycloak_token_with_retry,                 *)
(*                              refresh_keycloak_token_periodically_in_    *)
(*                              background                                 *)
(* Time is counted in whole seconds of the monotonic clock (Instant).      *)
(***************************************************************************)
EXTENDS Integers, Sequences, FiniteSets, TLC

\* ------------------------------------------------------------------------
\* Bounds of the model
\* ------------------------------------------------------------------------
MaxTime == 8
NumConsumers == 2
MaxTokens == 2
MaxRetriesBound == 3
MaxRetryTime == 16
MaxIssueTime == 9
MaxFairTime == 3
MaxBackoffTimes == 13
MaxPolls == 3

\* ------------------------------------------------------------------------
\* Program constants
\* ------------------------------------------------------------------------
\* retrieval.rs:28  let leeway_seconds: i32 = 10;
leeway_seconds == 10
\* retrieval.rs:118 let max_retries = 3;
scheduler_max_retries == 3
\* retrieval.rs:64  StatusCode::OK
StatusOK == 200
\* backon ExponentialBuilder::default(): min_delay 1s, factor 2, max_delay 60s
min_delay == 1
backoff_factor == 2
max_delay == 60

\* ------------------------------------------------------------------------
\* Inputs
\* ------------------------------------------------------------------------
\* expires_in values the identity provider may answer with
ExpiresInValues == {9, 10, 12}
\* expires_in values of the pure expiry computation (the unit test's 80000
\* included)
ExpiryInputs == {-5, 0, 9, 10, 11, 12, 13, 15, 20, 3600, 80000, 2147483647}
Statuses == {StatusOK, 500}
\* keycloak_expiry_check_interval_in_seconds the task may be started with
Intervals == {1, 2}
\* expiry of the token the owning caller acquired before it spawned the task
InitialExpiries == {0, 1}
Consumers == 1..NumConsumers
NoInstant == -1
NoToken == [access_token |-> -1, expiry |-> NoInstant]

\* ------------------------------------------------------------------------
\* KeycloakTokenResponse::calculate_token_expiry   (retrieval.rs:25-33)
\* ------------------------------------------------------------------------
\* `(x) as u64` of an i32: a non-negative value is kept, a negative value x
\* becomes 2^64 + x (sign extension).  The value is kept symbolically:
\* [wrapped |-> TRUE, v |-> x] stands for 2^64 + x.
AsU64(x) == IF x >= 0 THEN [wrapped |-> FALSE, v |-> x]
                      ELSE [wrapped |-> TRUE, v |-> x]

\* Instant + Duration::from_secs(d): panics ("overflow when adding duration
\* to instant") when the sum is not representable; 2^64 + x with
\* x >= -2^31 exceeds i64::MAX seconds, so a wrapped duration always panics.
InstantAdd(now_, d) == IF d.wrapped THEN [panicked |-> TRUE, instant |-> NoInstant]
                                   ELSE [panicked |-> FALSE, instant |-> now_ + d.v]

calculate_token_expiry_no_leeway(expires_in, now_) == InstantAdd(now_, AsU64(expires_in))

calculate_token_expiry(expires_in, now_) ==
    InstantAdd(now_, AsU64(expires_in - leeway_seconds))

\* ------------------------------------------------------------------------
\* retrieve_keycloak_token   (retrieval.rs:36-83)
\* ------------------------------------------------------------------------
\* What the HTTP exchange can produce: a connection failure (`.send().await?`)
\* or a response with a status and a body.  A body is the pair of fields the
\* provider put into the JSON text; expires_in may be missing.
\* The provider puts a fresh access_token (numbered id) into every body.
Bodies(id) == [access_token : {id}, has_expires_in : {TRUE}, expires_in : ExpiresInValues]
              \cup {[access_token |-> id, has_expires_in |-> FALSE, expires_in |-> 0]}
NoBody == [access_token |-> 0, has_expires_in |-> FALSE, expires_in |-> 0]
Responses(id) == {[kind |-> "connect_error", status |-> 0, body |-> NoBody]}
                 \cup [kind : {"http"}, status : Statuses, body : Bodies(id)]

Ok(t) == [kind |-> "Ok", token |-> t, err |-> [kind |-> "none"]]
Err(e) == [kind |-> "Err", token |-> NoToken, err |-> e]
Panic == [kind |-> "Panic", token |-> NoToken, err |-> [kind |-> "none"]]

\* derive_expiry_calculated_keycloak_token   (retrieval.rs:174-181)
derive_expiry_calculated_keycloak_token(body, now_) ==
    LET calculated_expiry == calculate_token_expiry(body.expires_in, now_)
    IN IF calculated_expiry.panicked
          THEN Panic
          ELSE Ok([access_token |-> body.access_token,
                   expiry |-> calculated_expiry.instant])

\* lines 64-69: bail!("Expected 200 OK .. Got status code: {}", resp.status())
StatusErrorNoCode(status) == [kind |-> "Status", status |-> 0]
StatusError(status) == [kind |-> "Status", status |-> status]

\* lines 76-77: the serde error with the context "Failed to convert ..
\* Response: {resp_text}."
ParseErrorNoBody(body) == [kind |-> "Parse", raw |-> NoBody]
ParseError(body) == [kind |-> "Parse", raw |-> body]

retrieve_keycloak_token(resp, now_) ==
    IF resp.kind = "connect_error"
       THEN Err([kind |-> "Connect"])
    ELSE IF resp.status # StatusOK
       THEN Err(StatusError(resp.status))
    ELSE IF ~resp.body.has_expires_in
       THEN Err(ParseError(resp.body))
    ELSE derive_expiry_calculated_keycloak_token(resp.body, now_)

\* ------------------------------------------------------------------------
\* State
\* ------------------------------------------------------------------------
\* ---- json-schema/src/validation.rs: merge_json_objects ----
\* serde_json::Value, as far as the merge tells the variants apart
JNull == [type |-> "null"]
JString(str) == [type |-> "string", s |-> str]
JNumber(n) == [type |-> "number", n |-> n]
JObject(m) == [type |-> "object", map |-> m]

\* member names and member values of the unit tests (lines 136-207)
MemberKeys == {"foo", "baz"}
MemberValues == {JString("bar"), JString("boom"), JString("bing")}
\* serde_json::Map iterates in key order
KeyOrder == <<"baz", "foo">>
Maps == UNION {[K -> MemberValues] : K \in SUBSET MemberKeys}
JsonValues == {JObject(m) : m \in Maps} \cup {JString("foo"), JNumber(1)}

\* serde_json::to_string_pretty of a value that is not an object
Pretty(v) ==
    IF v.type = "string" THEN "\"" \o v.s \o "\""
    ELSE IF v.type = "number" THEN ToString(v.n)
    ELSE "null"

RECURSIVE EntriesFrom(_, _)
EntriesFrom(m, i) ==
    IF i > Len(KeyOrder) THEN <<>>
    ELSE (IF KeyOrder[i] \in DOMAIN m
             THEN <<<<KeyOrder[i], m[KeyOrder[i]]>>>>
             ELSE <<>>) \o EntriesFrom(m, i + 1)

\* Map::into_iter: the (key, value) entries in order
into_iter(m) == EntriesFrom(m, 1)

\* Iterator::chain: all of the first, then all of the second
chain(first, second) == first \o second

\* Map::insert: a key already present gets the new value
insert_keep_first(m, k, v) ==
    [x \in DOMAIN m \cup {k} |-> IF x \in DOMAIN m THEN m[x] ELSE v]
insert(m, k, v) ==
    [x \in DOMAIN m \cup {k} |-> IF x = k THEN v ELSE m[x]]

\* FromIterator for Map: the entries are inserted one after the other
RECURSIVE CollectFrom(_, _, _)
CollectFrom(entries, i, m) ==
    IF i > Len(entries) THEN m
    ELSE CollectFrom(entries, i + 1, insert(m, entries[i][1], entries[i][2]))

collect(entries) == CollectFrom(entries, 1, <<>>)

NoValue == [type |-> "none"]
NotMerged == [kind |-> "None", value |-> NoValue, message |-> ""]
MergedOk(v) == [kind |-> "Ok", value |-> v, message |-> ""]
Bail(msg) == [kind |-> "Err", value |-> NoValue, message |-> msg]

\* lines 41-44 and 45-48: exactly one of the two is not an object
NotAnObjectUnnamed(x) ==
    Bail("value required to be object to merge.")
NotAnObject(x) ==
    Bail("value required to be object to merge. Instead got " \o Pretty(x))

\* lines 49-55
NeitherAnObject(a, b) ==
    Bail("Both values required to be object to merge. Neither value was an object. Instead got: "
         \o Pretty(a) \o " AND " \o Pretty(b))

merge_json_objects(a, b) ==
    IF a.type = "object" /\ b.type = "object"
       THEN MergedOk(JObject(collect(chain(into_iter(a.map), into_iter(b.map)))))
    ELSE IF a.type = "object" THEN NotAnObject(b)
    ELSE IF b.type = "object" THEN NotAnObject(a)
    ELSE NeitherAnObject(a, b)


\* ---- applied-config/src/shutdown.rs ----
\* the folder's modification time is a SystemTime, here in half seconds
\* relative to the epoch (negative: before it); a folder may be missing
NoFolder == [exists |-> FALSE, modified |-> 0]
FolderAt(h) == [exists |-> TRUE, modified |-> h]
ModifiedTimes == {-1, 0, 1, 2, 3, 4, 5}
FolderStates == {NoFolder} \cup {FolderAt(h) : h \in ModifiedTimes}
Baselines == {0, 1, 2}

\* lines 43-49: metadata()? fails for a missing folder, duration_since(..)?
\* for a time before the epoch; as_secs() drops the fraction
last_modified_as_seconds_since_epoch(f) ==
    IF ~f.exists THEN [kind |-> "Err", secs |-> 0]
    ELSE IF f.modified < 0 THEN [kind |-> "Err", secs |-> 0]
    ELSE [kind |-> "Ok", secs |-> f.modified \div 2]

\* line 26
ConfigChangedOrSame(last_modified, baseline) == last_modified >= baseline
ConfigChanged(last_modified, baseline) == last_modified > baseline

\* lines 20-37: one run of the polling closure; the job stays scheduled
\* whatever the outcome
PollOutcome(f, baseline) ==
    LET folder_last_modified == last_modified_as_seconds_since_epoch(f)
    IN [read |-> folder_last_modified,
        stop |-> /\ folder_last_modified.kind = "Ok"
                 /\ ConfigChanged(folder_last_modified.secs, baseline),
        again |-> TRUE]


VARIABLES
    now,              \* monotonic clock (Instant::now()), seconds
    alive,            \* the hosting process is running
    interval,         \* keycloak_expiry_check_interval_in_seconds
    nextTick,         \* instant of the next tick of the tokio interval
    keycloak_token,   \* the Arc<RwLock<KeycloakToken>> cell's content
    writeLocked,      \* the RwLock's write guard is held
    cpc, cval,        \* consumers: position and the copy being taken
    cstart,           \* history: the latest complete write when the
                      \* consumer's read began
    pc,               \* position of the spawned scheduler task
    ts, expiry, old_access_token, new_token,   \* the task's locals
    rpc,              \* position inside keycloak_token_with_retry
    max_retries,      \* its max_retries argument
    retries,          \* backon ExponentialBackoff.attempts
    wake,             \* instant at which the backoff sleep ends
    result,           \* what keycloak_token_with_retry returned
    nextId,           \* next access_token the provider issues
    attempts,         \* history: exchanges started by the current call
    outcomes,         \* history: "Ok"/"Err"/"Panic" of each finished attempt
    lastOutcome,      \* history: the result of the latest finished attempt
    log,              \* history: notify() records of the current call
    tickStats,        \* history: what the current tick has done so far
    pre,              \* history: cell content before the latest write began
    post,             \* history: the token the latest write stores
    cbArg,            \* history: argument of the latest on_token_refresh call
    readAfterFailure, \* history: a consumer took the read lock after the panic
    expiryIn, expiryNow, expiryOut,  \* the pure expiry computation's in/out
    acqPc,            \* position of a single retrieve_keycloak_token call
    acqResp,          \* the response the provider produced for it
    acqIssuedAt,      \* instant at which the provider produced it
    acqResult,        \* what the call returned
    mergeA, mergeB,   \* the two values handed to merge_json_objects
    mergeOut,         \* what merge_json_objects returned
    boMaxTimes,       \* max_times of a backoff on its own
    boDelays,         \* the delay before each attempt made with it so far
    applied_config_last_modified,   \* the watcher's baseline, in seconds
    folder,           \* the config folder as the file system has it
    polls             \* history: what each poll of the watcher read and did

vars == <<now, alive, interval, nextTick, keycloak_token, writeLocked, cpc, cval,
          cstart,
          pc, ts, expiry, old_access_token, new_token, rpc, max_retries,
          retries, wake, result, nextId, attempts, outcomes, lastOutcome, log,
          tickStats,
          pre, post, cbArg, readAfterFailure, expiryIn, expiryOut, expiryNow,
          acqPc, acqResp, acqIssuedAt, acqResult, mergeA, mergeB, mergeOut,
          boMaxTimes, boDelays, applied_config_last_modified, folder, polls>>

consumerVars == <<cpc, cval, cstart>>
localVars == <<ts, expiry, old_access_token, new_token>>
retryVars == <<rpc, max_retries, retries, wake, result, nextId, attempts,
              outcomes, lastOutcome, log>>
expiryVars == <<expiryIn, expiryNow, expiryOut>>
acquireVars == <<acqPc, acqResp, acqIssuedAt, acqResult>>
mergeVars == <<mergeA, mergeB, mergeOut>>
backoffVars == <<boMaxTimes, boDelays>>
shutdownVars == <<applied_config_last_modified, folder, polls>>
pureVars == <<expiryVars, acquireVars, mergeVars, backoffVars, shutdownVars>>
cellVars == <<keycloak_token, writeLocked>>
histVars == <<pre, post>>

NotCalculated == [panicked |-> FALSE, instant |-> NoInstant - 1]
NoResult == [kind |-> "None", token |-> NoToken, err |-> [kind |-> "none"]]
NoStart == 0 - 1
NoResponse == [kind |-> "none", status |-> 0, body |-> NoBody]
NoTick == [calls |-> 0, writes |-> 0, cbs |-> 0, retry |-> FALSE]

\* ------------------------------------------------------------------------
\* tokio::sync::RwLock<KeycloakToken>
\* ------------------------------------------------------------------------
ReadGuards == Cardinality({c \in Consumers : cpc[c] # "idle"})

\* read().await is granted when no writer holds the lock and none is queued
\* (the lock is fair: a reader arriving after a waiting writer queues behind it)
CanReadUnguarded == TRUE
CanRead == ~writeLocked /\ pc # "wlock"

\* what a read guard dereferences to: the cell itself
CellSnapshotStale == IF pre = NoToken THEN keycloak_token ELSE pre
CellSnapshot == keycloak_token

\* the access_token of the latest write that has stored both fields
LastCompleteWrite == IF pc \in {"store_access", "store_expiry"}
                        THEN pre.access_token
                        ELSE post.access_token

\* write().await is granted when there is no reader and no writer
CanWriteIgnoringReaders == ~writeLocked
CanWrite == ~writeLocked /\ ReadGuards = 0

\* ------------------------------------------------------------------------
\* Init: the state when the task has just been spawned (retrieval.rs:113-118)
\* ------------------------------------------------------------------------
InitCommon ==
    /\ now = 0
    /\ alive = TRUE
    /\ interval \in Intervals
    /\ nextTick = 0
    /\ \E e \in InitialExpiries :
          keycloak_token = [access_token |-> 0, expiry |-> e]
    /\ writeLocked = FALSE
    /\ cpc = [c \in Consumers |-> "idle"]
    /\ cval = [c \in Consumers |-> NoToken]
    /\ cstart = [c \in Consumers |-> NoStart]
    /\ pc = "wait_tick"
    /\ ts = NoInstant /\ expiry = NoInstant
    /\ old_access_token = -1 /\ new_token = NoToken
    /\ rpc = "idle"
    /\ max_retries = scheduler_max_retries
    /\ retries = 0 /\ wake = 0
    /\ result = NoResult
    /\ nextId = 1
    /\ attempts = 0 /\ outcomes = <<>> /\ lastOutcome = NoResult /\ log = <<>>
    /\ tickStats = NoTick
    /\ pre = NoToken /\ post = keycloak_token /\ cbArg = NoToken
    /\ readAfterFailure = FALSE

InitNoExpiry ==
    /\ expiryIn = 0 /\ expiryNow = 0
    /\ expiryOut = NotCalculated

InitNoAcquire ==
    /\ acqPc = "idle"
    /\ acqResp = NoResponse
    /\ acqIssuedAt = NoInstant
    /\ acqResult = NoResult

InitNoMerge ==
    /\ mergeA = JNull
    /\ mergeB = JNull
    /\ mergeOut = NotMerged

InitNoShutdown ==
    /\ applied_config_last_modified = 0
    /\ folder = NoFolder
    /\ polls = <<>>

InitNoBackoff ==
    /\ boMaxTimes = 0
    /\ boDelays = <<>>

Init ==
    /\ InitCommon
    /\ InitNoExpiry
    /\ InitNoAcquire
    /\ InitNoMerge
    /\ InitNoBackoff
    /\ InitNoShutdown

\* ------------------------------------------------------------------------
\* The clock
\* ------------------------------------------------------------------------
AdvanceTime(limit) ==
    /\ alive
    /\ now < limit
    /\ now' = now + 1
    /\ UNCHANGED <<alive, interval, nextTick, cellVars, consumerVars, pc, localVars,
                   retryVars, tickStats, histVars, cbArg, readAfterFailure, pureVars>>

\* ------------------------------------------------------------------------
\* Consumers: take the read guard and copy the first field, copy the second
\* field, drop the guard (the access pattern of retrieval.rs:122-126 and
\* 131-135)
\* ------------------------------------------------------------------------
ConsumerAcquire(c) ==
    /\ alive
    /\ cpc[c] = "idle"
    /\ CanRead
    /\ cpc' = [cpc EXCEPT ![c] = "half"]
    /\ cval' = [cval EXCEPT ![c] = [access_token |-> CellSnapshot.access_token,
                                    expiry |-> NoInstant]]
    /\ cstart' = [cstart EXCEPT ![c] = LastCompleteWrite]
    /\ readAfterFailure' = (readAfterFailure \/ pc = "panicked")
    /\ UNCHANGED <<now, alive, interval, nextTick, cellVars, pc, localVars,
                   retryVars, tickStats, histVars, cbArg, pureVars>>

ConsumerCopyExpiry(c) ==
    /\ alive
    /\ cpc[c] = "half"
    /\ cval' = [cval EXCEPT ![c].expiry = CellSnapshot.expiry]
    /\ cpc' = [cpc EXCEPT ![c] = "full"]
    /\ UNCHANGED <<cstart, now, alive, interval, nextTick, cellVars, pc, localVars,
                   retryVars, tickStats, histVars, cbArg, readAfterFailure, pureVars>>

ConsumerRelease(c) ==
    /\ alive
    /\ cpc[c] = "full"
    /\ cpc' = [cpc EXCEPT ![c] = "idle"]
    /\ cval' = [cval EXCEPT ![c] = NoToken]
    /\ cstart' = [cstart EXCEPT ![c] = NoStart]
    /\ UNCHANGED <<now, alive, interval, nextTick, cellVars, pc, localVars,
                   retryVars, tickStats, histVars, cbArg, readAfterFailure,
                   pureVars>>

\* ------------------------------------------------------------------------
\* keycloak_token_with_retry   (retrieval.rs:85-101)
\*   (|| retrieve_keycloak_token(..)).retry(ExponentialBuilder::default()
\*       .with_max_times(max_retries)).notify(..).await
\* ------------------------------------------------------------------------
RECURSIVE Pow(_, _)
Pow(b, n) == IF n = 0 THEN 1 ELSE b * Pow(b, n - 1)

Min(a, b) == IF a <= b THEN a ELSE b

\* ExponentialBackoff::next(): None once `attempts >= max_times`
BackoffExhaustedOneLate(n, k) == n > k
BackoffExhausted(n, k) == n >= k

\* the delay handed out for the n-th retry (n = 1, 2, ..): min_delay, then
\* multiplied by the factor each time, capped at max_delay; no jitter
BackoffDelayUncapped(n) == min_delay * Pow(backoff_factor, n - 1)
BackoffDelay(n) == Min(min_delay * Pow(backoff_factor, n - 1), max_delay)

\* .notify(|err, duration| warn!(..)): one record per call of the closure
NotifySwallowed(l, e, d) == l
Notify(l, e, d) == Append(l, [err |-> e, delay |-> d])

\* which errors are retried: the builder has no `.when(..)`, so all of them
RetryableTransientOnly(e) == e.kind = "Connect"
Retryable(e) == TRUE

\* what the retry future resolves to once the backoff is exhausted
ExhaustedResultDefaultToken(e) == Ok([access_token |-> 0, expiry |-> 0])
ExhaustedResult(e) == Err(e)

\* the call starts: the first attempt is made at once
StartCall(k) ==
    /\ rpc' = "exchange"
    /\ max_retries' = k
    /\ retries' = 0
    /\ wake' = 0
    /\ result' = NoResult
    /\ attempts' = 1
    /\ outcomes' = <<>>
    /\ lastOutcome' = NoResult
    /\ log' = <<>>
    /\ UNCHANGED nextId

CountCall == tickStats' = IF pc = "retrying"
                             THEN [tickStats EXCEPT !.calls = @ + 1]
                             ELSE tickStats

\* an attempt's exchange ends with the response resp
Respond(resp) ==
    /\ alive
    /\ rpc = "exchange"
    /\ LET r == retrieve_keycloak_token(resp, now)
       IN /\ outcomes' = Append(outcomes, r.kind)
          /\ lastOutcome' = r
          /\ nextId' = IF r.kind = "Ok" THEN nextId + 1 ELSE nextId
          /\ CASE r.kind = "Ok" ->
                    /\ result' = r
                    /\ rpc' = "done"
                    /\ UNCHANGED <<retries, wake, log>>
               [] r.kind = "Panic" ->
                    /\ rpc' = "panic"
                    /\ UNCHANGED <<result, retries, wake, log>>
               [] r.kind = "Err" /\ (\/ BackoffExhausted(retries, max_retries)
                                     \/ ~Retryable(r.err)) ->
                    /\ result' = ExhaustedResult(r.err)
                    /\ rpc' = "done"
                    /\ UNCHANGED <<retries, wake, log>>
               [] r.kind = "Err" /\ ~BackoffExhausted(retries, max_retries)
                                 /\ Retryable(r.err) ->
                    /\ retries' = retries + 1
                    /\ log' = Notify(log, r.err, BackoffDelay(retries + 1))
                    /\ wake' = now + BackoffDelay(retries + 1)
                    /\ rpc' = "sleep"
                    /\ UNCHANGED result
    /\ UNCHANGED <<now, alive, interval, nextTick, cellVars, consumerVars, pc,
                   localVars, max_retries, attempts, tickStats, histVars, cbArg,
                   readAfterFailure, pureVars>>

ExchangeResponds ==
    /\ nextId <= MaxTokens
    /\ \E resp \in Responses(nextId) : Respond(resp)

\* the backoff sleep is over: the next attempt is made
SleepDone ==
    /\ alive
    /\ rpc = "sleep"
    /\ now >= wake
    /\ rpc' = "exchange"
    /\ attempts' = attempts + 1
    /\ CountCall
    /\ UNCHANGED <<now, alive, interval, nextTick, cellVars, consumerVars, pc,
                   localVars, max_retries, retries, wake, result, nextId,
                   outcomes, lastOutcome, log, histVars, cbArg, readAfterFailure,
                   pureVars>>

\* a one-shot caller invokes keycloak_token_with_retry directly
DirectCall ==
    /\ alive
    /\ pc = "wait_tick"
    /\ rpc = "idle"
    /\ \E k \in 0..MaxRetriesBound : StartCall(k)
    /\ UNCHANGED <<now, alive, interval, nextTick, cellVars, consumerVars, pc,
                   localVars, tickStats, histVars, cbArg, readAfterFailure, pureVars>>

DirectReturn ==
    /\ alive
    /\ pc = "wait_tick"
    /\ rpc = "done"
    /\ rpc' = "idle"
    /\ result' = NoResult
    /\ retries' = 0 /\ wake' = 0
    /\ attempts' = 0 /\ outcomes' = <<>> /\ lastOutcome' = NoResult /\ log' = <<>>
    /\ UNCHANGED <<now, alive, interval, nextTick, cellVars, consumerVars, pc,
                   localVars, max_retries, nextId, tickStats,
                   histVars, cbArg, readAfterFailure, pureVars>>

\* ------------------------------------------------------------------------
\* refresh_keycloak_token_periodically_in_background  (retrieval.rs:103-172)
\* the task spawned at line 113
\* ------------------------------------------------------------------------
\* line 120: interval_stream.next().await yields the scheduled instant of
\* the tick (the first one at once, a missed one as soon as possible)
\* line 120: the task takes a tick only when the loop body has ended and
\* the loop is back at interval_stream.next().await
TaskAwaitsTickAnywhere == TRUE
TaskAwaitsTick == pc = "wait_tick"

Tick ==
    /\ alive
    /\ TaskAwaitsTick
    /\ rpc = "idle"
    /\ nextTick <= now
    /\ ts' = nextTick
    /\ nextTick' = nextTick + interval
    /\ expiry' = NoInstant
    /\ old_access_token' = -1
    /\ new_token' = NoToken
    /\ tickStats' = NoTick
    /\ pc' = "read_expiry"
    /\ UNCHANGED <<now, alive, interval, cellVars, consumerVars, retryVars,
                   histVars, cbArg, readAfterFailure, pureVars>>

\* lines 122-126: read guard taken, expiry copied, guard dropped
ReadExpiry ==
    /\ alive
    /\ pc = "read_expiry"
    /\ ~writeLocked
    /\ expiry' = keycloak_token.expiry
    /\ pc' = "check"
    /\ UNCHANGED <<now, alive, interval, nextTick, cellVars, consumerVars, ts,
                   old_access_token, new_token, retryVars, tickStats, histVars,
                   cbArg, readAfterFailure, pureVars>>

\* line 128: if ts.into_std() > expiry
token_expired_with_leeway(tick, exp) == tick + leeway_seconds > exp
token_expired(tick, exp) == tick > exp

CheckExpiry ==
    /\ alive
    /\ pc = "check"
    /\ pc' = IF token_expired(ts, expiry) THEN "read_old" ELSE "wait_tick"
    /\ UNCHANGED <<now, alive, interval, nextTick, cellVars, consumerVars,
                   localVars, retryVars, tickStats, histVars, cbArg,
                   readAfterFailure, pureVars>>

\* lines 131-140: read guard taken, access_token cloned, guard dropped
ReadOldAccessToken ==
    /\ alive
    /\ pc = "read_old"
    /\ ~writeLocked
    /\ old_access_token' = keycloak_token.access_token
    /\ pc' = "call_retry"
    /\ UNCHANGED <<now, alive, interval, nextTick, cellVars, consumerVars, ts,
                   expiry, new_token, retryVars, tickStats, histVars, cbArg,
                   readAfterFailure, pureVars>>

\* lines 146-150: keycloak_token_with_retry(&client, config, max_retries)
StartRetry ==
    /\ alive
    /\ pc = "call_retry"
    /\ rpc = "idle"
    /\ StartCall(scheduler_max_retries)
    /\ tickStats' = [tickStats EXCEPT !.retry = TRUE, !.calls = 1]
    /\ pc' = "retrying"
    /\ UNCHANGED <<now, alive, interval, nextTick, cellVars, consumerVars,
                   localVars, histVars, cbArg, readAfterFailure, pureVars>>

\* lines 151-156 on Ok: .await.unwrap_or_else(..) yields the token and the
\* task goes on to take the write guard
PcAfterRetryOkSkipStore == "callback"
PcAfterRetryOk == "wlock"

RetryOk ==
    /\ alive
    /\ pc = "retrying"
    /\ rpc = "done"
    /\ result.kind = "Ok"
    /\ new_token' = result.token
    /\ rpc' = "idle"
    /\ result' = NoResult
    /\ retries' = 0 /\ wake' = 0
    /\ attempts' = 0 /\ outcomes' = <<>> /\ lastOutcome' = NoResult /\ log' = <<>>
    /\ pc' = PcAfterRetryOk
    /\ UNCHANGED <<now, alive, interval, nextTick, cellVars, consumerVars, ts,
                   expiry, old_access_token, max_retries,
                   nextId, tickStats, histVars, cbArg, readAfterFailure, pureVars>>

\* lines 152-154 on Err: panic!("Unable to retrieve keycloak token ..");
\* also a panic raised inside an attempt (calculate_token_expiry).
\* The panic unwinds the spawned task; the process goes on (the runtime
\* catches the panic of a task) unless the build aborts on panic.
\* lines 152-155: on Err the closure of unwrap_or_else panics, so the task
\* never reaches the write of line 156
PcAfterRetryErrStoresAnyway == "wlock"
PcAfterRetryErr == "panicked"

\* line 154 without the panic: the error is dropped and the loop goes on
TaskSwallowsError ==
    /\ alive
    /\ pc = "retrying"
    /\ rpc = "done" /\ result.kind = "Err"
    /\ pc' = "wait_tick"
    /\ rpc' = "idle"
    /\ UNCHANGED <<now, alive, interval, nextTick, cellVars, consumerVars, localVars,
                   max_retries, retries, wake, result, nextId, attempts, outcomes,
                   lastOutcome, log, tickStats, histVars, cbArg,
                   readAfterFailure, pureVars>>

TaskPanics ==
    /\ alive
    /\ pc = "retrying"
    /\ \/ rpc = "done" /\ result.kind = "Err"
       \/ rpc = "panic"
    /\ pc' = PcAfterRetryErr
    /\ alive' \in BOOLEAN
    /\ UNCHANGED <<now, interval, nextTick, cellVars, consumerVars, localVars,
                   retryVars, tickStats, histVars, cbArg, readAfterFailure, pureVars>>

\* line 156: keycloak_token.write().await
AcquireWrite ==
    /\ alive
    /\ pc = "wlock"
    /\ CanWrite
    /\ writeLocked' = TRUE
    /\ pre' = keycloak_token
    /\ post' = new_token
    /\ pc' = "store_access"
    /\ UNCHANGED <<now, alive, interval, nextTick, keycloak_token, consumerVars,
                   localVars, retryVars, tickStats, cbArg, readAfterFailure,
                   pureVars>>

\* line 158: *keycloak_token_write_guard = new_token.clone();
\* the two fields of the struct are stored one after the other
StoreAccessToken ==
    /\ alive
    /\ pc = "store_access"
    /\ keycloak_token' = [keycloak_token EXCEPT !.access_token = new_token.access_token]
    /\ tickStats' = [tickStats EXCEPT !.writes = @ + 1]
    /\ pc' = "store_expiry"
    /\ UNCHANGED <<now, alive, interval, nextTick, writeLocked, consumerVars,
                   localVars, retryVars, histVars, cbArg, readAfterFailure, pureVars>>

\* lines 160-161: the block ends, the write guard is dropped
PcAfterStoreGuardKept == "callback"
PcAfterStore == "unlock"

StoreExpiry ==
    /\ alive
    /\ pc = "store_expiry"
    /\ keycloak_token' = [keycloak_token EXCEPT !.expiry = new_token.expiry]
    /\ tickStats' = [tickStats EXCEPT !.writes = @ + 1]
    /\ pc' = PcAfterStore
    /\ UNCHANGED <<now, alive, interval, nextTick, writeLocked, consumerVars,
                   localVars, retryVars, histVars, cbArg, readAfterFailure, pureVars>>

ReleaseWrite ==
    /\ alive
    /\ pc = "unlock"
    /\ writeLocked' = FALSE
    /\ pc' = "callback"
    /\ UNCHANGED <<now, alive, interval, nextTick, keycloak_token, consumerVars,
                   localVars, retryVars, tickStats, histVars, cbArg,
                   readAfterFailure, pureVars>>

\* line 168: on_token_refresh(new_keycloak_token)
CallbackArgOldToken == [access_token |-> old_access_token, expiry |-> expiry]
CallbackArg == new_token

InvokeCallback ==
    /\ alive
    /\ pc = "callback"
    /\ cbArg' = CallbackArg
    /\ tickStats' = [tickStats EXCEPT !.cbs = @ + 1]
    /\ pc' = "cb_running"
    /\ UNCHANGED <<now, alive, interval, nextTick, cellVars, consumerVars,
                   localVars, retryVars, histVars, readAfterFailure, pureVars>>

\* line 168: .await of the callback's future completes; a write guard still
\* held at this point is dropped with the end of the loop body
\* a callback future that never completes
CallbackHangs ==
    /\ alive
    /\ pc = "cb_running"
    /\ UNCHANGED vars

CallbackReturns ==
    /\ alive
    /\ pc = "cb_running"
    /\ writeLocked' = FALSE
    /\ pc' = "wait_tick"
    /\ UNCHANGED <<now, alive, interval, nextTick, keycloak_token, consumerVars,
                   localVars, retryVars, tickStats, histVars, cbArg,
                   readAfterFailure, pureVars>>

\* ------------------------------------------------------------------------
\* Specifications
\* ------------------------------------------------------------------------
Next ==
    \/ AdvanceTime(MaxTime)
    \/ \E c \in Consumers : ConsumerAcquire(c)
    \/ \E c \in Consumers : ConsumerCopyExpiry(c)
    \/ \E c \in Consumers : ConsumerRelease(c)
    \/ Tick
    \/ ReadExpiry
    \/ CheckExpiry
    \/ ReadOldAccessToken
    \/ StartRetry
    \/ ExchangeResponds
    \/ SleepDone
    \/ RetryOk
    \/ TaskPanics
    \/ AcquireWrite
    \/ StoreAccessToken
    \/ StoreExpiry
    \/ ReleaseWrite
    \/ InvokeCallback
    \/ CallbackReturns

Spec == Init /\ [][Next]_vars

\* every step of the spawned task (retrieval.rs:113-171): the runtime polls
\* the task whenever its timer, exchange, sleep, lock or callback is ready
SchedulerTask ==
    \/ Tick
    \/ ReadExpiry
    \/ CheckExpiry
    \/ ReadOldAccessToken
    \/ StartRetry
    \/ ExchangeResponds
    \/ SleepDone
    \/ RetryOk
    \/ TaskPanics
    \/ AcquireWrite
    \/ StoreAccessToken
    \/ StoreExpiry
    \/ ReleaseWrite
    \/ InvokeCallback
    \/ CallbackReturns

\* a reader copies the fields inside a block that drops the guard at its
\* end, with no await in between (the pattern of retrieval.rs:122-126)
ConsumerFinishes(c) == ConsumerCopyExpiry(c) \/ ConsumerRelease(c)

\* the scheduler with a 1-second interval and a token that expires at once
InitFair ==
    /\ Init
    /\ interval = 1
    /\ keycloak_token.expiry = 0

NextFair ==
    \/ AdvanceTime(MaxFairTime)
    \/ \E c \in Consumers : ConsumerAcquire(c)
    \/ \E c \in Consumers : ConsumerCopyExpiry(c)
    \/ \E c \in Consumers : ConsumerRelease(c)
    \/ SchedulerTask

FairSpec ==
    /\ InitFair
    /\ [][NextFair]_vars
    /\ WF_vars(SchedulerTask)
    /\ \A c \in Consumers : WF_vars(ConsumerFinishes(c))

\* keycloak_token_with_retry called on its own, for every max_retries
NextRetry ==
    \/ AdvanceTime(MaxRetryTime)
    \/ DirectCall
    \/ ExchangeResponds
    \/ SleepDone
    \/ DirectReturn

InitRetry ==
    /\ Init
    /\ interval = 1
    /\ keycloak_token.expiry = 0

SpecRetry == InitRetry /\ [][NextRetry]_vars

\* calculate_token_expiry applied to every input
InitExpiry ==
    /\ InitCommon
    /\ interval = 1
    /\ keycloak_token.expiry = 0
    /\ expiryIn \in ExpiryInputs
    /\ expiryNow \in 0..MaxIssueTime
    /\ expiryOut = NotCalculated
    /\ InitNoAcquire
    /\ InitNoMerge
    /\ InitNoBackoff
    /\ InitNoShutdown

CalculateExpiry ==
    /\ expiryOut = NotCalculated
    /\ expiryOut' = calculate_token_expiry(expiryIn, expiryNow)
    /\ UNCHANGED <<now, alive, interval, nextTick, cellVars, consumerVars, pc,
                   localVars, retryVars, tickStats, histVars, cbArg,
                   readAfterFailure, shutdownVars, expiryIn, expiryNow, acquireVars,
                   mergeVars, backoffVars>>

NextExpiry == CalculateExpiry

SpecExpiry == InitExpiry /\ [][NextExpiry]_vars

\* retrieve_keycloak_token called once on its own (retrieval.rs:36-83)
\* lines 54-61: the POST is sent
AcquireSend ==
    /\ acqPc = "idle"
    /\ acqPc' = "sent"
    /\ UNCHANGED <<now, alive, interval, nextTick, cellVars, consumerVars, pc,
                   localVars, retryVars, tickStats, histVars, cbArg,
                   readAfterFailure, shutdownVars, expiryVars, mergeVars, backoffVars, acqResp,
                   acqIssuedAt, acqResult>>

\* the provider produces its answer (for a token, that is when it is issued)
\* or the connection fails
ProviderAnswers ==
    /\ acqPc = "sent"
    /\ \E resp \in Responses(nextId) : acqResp' = resp
    /\ acqIssuedAt' = now
    /\ acqPc' = "answered"
    /\ UNCHANGED <<now, alive, interval, nextTick, cellVars, consumerVars, pc,
                   localVars, retryVars, tickStats, histVars, cbArg,
                   readAfterFailure, shutdownVars, expiryVars, mergeVars, backoffVars, acqResult>>

\* lines 62-82: the answer has arrived and is turned into the result; the
\* expiry is counted from Instant::now() of line 175
AcquireReceive ==
    /\ acqPc = "answered"
    /\ acqResult' = retrieve_keycloak_token(acqResp, now)
    /\ acqPc' = "done"
    /\ UNCHANGED <<now, alive, interval, nextTick, cellVars, consumerVars, pc,
                   localVars, retryVars, tickStats, histVars, cbArg,
                   readAfterFailure, shutdownVars, expiryVars, mergeVars, backoffVars, acqResp,
                   acqIssuedAt>>

NextAcquire ==
    \/ AdvanceTime(MaxIssueTime)
    \/ AcquireSend
    \/ ProviderAnswers
    \/ AcquireReceive

SpecAcquire == InitRetry /\ [][NextAcquire]_vars

\* merge_json_objects applied to any two values (validation.rs:35-57)
InitMerge ==
    /\ InitCommon
    /\ interval = 1
    /\ keycloak_token.expiry = 0
    /\ InitNoExpiry
    /\ InitNoAcquire
    /\ mergeA \in JsonValues
    /\ mergeB \in JsonValues
    /\ mergeOut = NotMerged
    /\ InitNoBackoff
    /\ InitNoShutdown

MergeJsonObjects ==
    /\ mergeOut = NotMerged
    /\ mergeOut' = merge_json_objects(mergeA, mergeB)
    /\ UNCHANGED <<now, alive, interval, nextTick, cellVars, consumerVars, pc,
                   localVars, retryVars, tickStats, histVars, cbArg,
                   readAfterFailure, shutdownVars, expiryVars, acquireVars, backoffVars, mergeA,
                   mergeB>>

NextMerge == MergeJsonObjects

SpecMerge == InitMerge /\ [][NextMerge]_vars

\* the retry of retrieval.rs:90-91 with every attempt failing: the delays
\* before the attempts, for any max_times
InitBackoff ==
    /\ InitCommon
    /\ interval = 1
    /\ keycloak_token.expiry = 0
    /\ InitNoExpiry
    /\ InitNoAcquire
    /\ InitNoMerge
    /\ boMaxTimes \in 0..MaxBackoffTimes
    /\ boDelays = <<>>
    /\ InitNoShutdown

\* the retry future runs the operation at once when it is first polled
BackoffFirstAttempt ==
    /\ boDelays = <<>>
    /\ boDelays' = <<0>>
    /\ UNCHANGED <<now, alive, interval, nextTick, cellVars, consumerVars, pc,
                   localVars, retryVars, tickStats, histVars, cbArg,
                   readAfterFailure, shutdownVars, expiryVars, acquireVars, mergeVars,
                   boMaxTimes>>

\* the attempt failed: the backoff hands out the next delay, unless it is
\* exhausted, and the attempt after it is made
BackoffRetry ==
    /\ Len(boDelays) >= 1
    /\ ~BackoffExhausted(Len(boDelays) - 1, boMaxTimes)
    /\ boDelays' = Append(boDelays, BackoffDelay(Len(boDelays)))
    /\ UNCHANGED <<now, alive, interval, nextTick, cellVars, consumerVars, pc,
                   localVars, retryVars, tickStats, histVars, cbArg,
                   readAfterFailure, shutdownVars, expiryVars, acquireVars, mergeVars,
                   boMaxTimes>>

NextBackoff == BackoffFirstAttempt \/ BackoffRetry

SpecBackoff == InitBackoff /\ [][NextBackoff]_vars

\* shutdown_on_config_change (shutdown.rs:11-41) next to a file system that
\* changes the folder
InitShutdown ==
    /\ InitCommon
    /\ interval = 1
    /\ keycloak_token.expiry = 0
    /\ InitNoExpiry
    /\ InitNoAcquire
    /\ InitNoMerge
    /\ InitNoBackoff
    /\ applied_config_last_modified \in Baselines
    /\ folder \in FolderStates
    /\ polls = <<>>

\* the folder is touched, removed or created
FolderChanges ==
    /\ \E f \in FolderStates : f # folder /\ folder' = f
    /\ UNCHANGED <<now, alive, interval, nextTick, cellVars, consumerVars, pc,
                   localVars, retryVars, tickStats, histVars, cbArg,
                   readAfterFailure, expiryVars, acquireVars, mergeVars,
                   backoffVars, applied_config_last_modified, polls>>

\* the polling period has passed: the closure runs once
Poll ==
    /\ Len(polls) < MaxPolls
    /\ polls # <<>> => polls[Len(polls)].again
    /\ polls' = Append(polls, PollOutcome(folder, applied_config_last_modified))
    /\ UNCHANGED <<now, alive, interval, nextTick, cellVars, consumerVars, pc,
                   localVars, retryVars, tickStats, histVars, cbArg,
                   readAfterFailure, expiryVars, acquireVars, mergeVars,
                   backoffVars, applied_config_last_modified, folder>>

NextShutdown == FolderChanges \/ Poll

SpecShutdown == InitShutdown /\ [][NextShutdown]_vars

\* ------------------------------------------------------------------------
\* Properties
\* ------------------------------------------------------------------------
Failed(seq) == {i \in DOMAIN seq : seq[i] = "Err"}
Last(seq) == seq[Len(seq)]

\* C1: whatever the interleaving of the scheduler's write with the consumers'
\* reads, a completed read holds a whole token: the one stored before the
\* latest write or the one that write stores, never one field of each.
C1_ReadsAreWhole ==
    \A c \in Consumers : cpc[c] = "full" => cval[c] \in {pre, post}

\* a consumer completes a read that it began before a write the scheduler is
\* waiting to make, after an earlier write has replaced the initial token
C1_Witness ==
    \E c \in Consumers :
        /\ cpc[c] = "full"
        /\ pc = "wlock"
        /\ pre # NoToken
        /\ cval[c] = post

\* C2: the write guard is held only while the token is replaced in memory:
\* never during an exchange, a backoff sleep or the rotation callback.
C2_WriteLockOnlyForSwap ==
    writeLocked =>
        /\ pc \in {"store_access", "store_expiry", "unlock"}
        /\ rpc \notin {"exchange", "sleep"}
        /\ pc \notin {"retrying", "callback", "cb_running"}

C2_Witness == writeLocked /\ pc = "store_expiry" /\ ReadGuards = 0

\* C3: a tick whose instant is strictly before the stored expiry makes no
\* exchange, stores nothing and does not invoke the callback.
C3_TickBeforeExpiryIsNoOp ==
    (expiry # NoInstant /\ ts < expiry) =>
        /\ tickStats.calls = 0
        /\ tickStats.writes = 0
        /\ tickStats.cbs = 0
        /\ rpc = "idle"

\* such a tick has come and gone, after a refresh by an earlier tick
C3_Witness ==
    /\ pc = "wait_tick"
    /\ expiry # NoInstant
    /\ ts < expiry
    /\ keycloak_token.access_token > 0

\* C4: a tick whose instant is not strictly before the stored expiry
\* (ts >= expiry, ts = expiry included) invokes keycloak_token_with_retry.
C4_TickAtOrAfterExpiryRefreshes ==
    (pc = "wait_tick" /\ expiry # NoInstant /\ ts >= expiry) => tickStats.retry

\* C5: once the retries are exhausted the process is terminated, and no
\* consumer reads the expired token from the cell afterwards.
Exhausted == pc = "panicked" /\ rpc = "done" /\ result.kind = "Err"

C5_ExhaustionTerminatesProcess ==
    /\ Exhausted => ~alive
    /\ ~readAfterFailure

\* C6: a refresh invokes the callback exactly once, with the token that was
\* just stored in the cell and not the replaced one; a tick that stores
\* nothing invokes no callback.
C6_CallbackOncePerRefresh ==
    /\ tickStats.cbs <= 1
    /\ tickStats.cbs = 1 =>
          /\ tickStats.writes = 2
          /\ cbArg = keycloak_token
          /\ cbArg = post
          /\ cbArg # pre
    /\ (pc = "wait_tick" /\ tickStats.writes = 2) => tickStats.cbs = 1
    /\ tickStats.writes = 0 => tickStats.cbs = 0

C6_Witness ==
    /\ pc = "wait_tick"
    /\ tickStats.cbs = 1
    /\ cbArg.access_token >= 2

\* C7: with max_retries = k the call makes as many attempts as the index of
\* the first success within the first k+1, else exactly k+1; none after a
\* success, never more than k+1; a success returns that attempt's token.
C7_AttemptCount ==
    /\ attempts <= max_retries + 1
    /\ Len(outcomes) <= attempts
    /\ \A i \in DOMAIN outcomes :
          outcomes[i] = "Ok" => (i = Len(outcomes) /\ attempts = i)
    /\ rpc = "done" =>
          /\ attempts = Len(outcomes)
          /\ IF Last(outcomes) = "Ok"
                THEN /\ result.kind = "Ok"
                     /\ result.token = lastOutcome.token
                     /\ result.token.access_token = nextId - 1
                ELSE /\ attempts = max_retries + 1
                     /\ Failed(outcomes) = 1..(max_retries + 1)

\* every attempt of a call with two or more retries has failed
C7_Witness ==
    /\ rpc = "done"
    /\ max_retries >= 2
    /\ attempts = max_retries + 1
    /\ Failed(outcomes) = DOMAIN outcomes

\* C8 as stated: when all max_retries+1 attempts fail the call returns the
\* last attempt's error wrapped as an ExhaustedRetries error, and never a
\* success with a stale or default token.
C8_ExhaustedRetriesWrapped ==
    (rpc = "done" /\ Last(outcomes) = "Err") =>
        /\ result.kind = "Err"
        /\ result.err.kind = "ExhaustedRetries"
        /\ result.err.last_error = lastOutcome.err

\* C8 amended: when all max_retries+1 attempts fail the call returns the
\* last attempt's error as it is, unwrapped, and never a success; a success
\* carries the token of the attempt that succeeded.
C8_LastErrorReturnedUnchanged ==
    rpc = "done" =>
        IF Last(outcomes) = "Err"
           THEN /\ result.kind = "Err"
                /\ result.err = lastOutcome.err
                /\ result.err.kind \in {"Connect", "Status", "Parse"}
                /\ result.token = NoToken
           ELSE /\ result.kind = "Ok"
                /\ result = lastOutcome

C8_Witness ==
    /\ rpc = "done"
    /\ max_retries >= 1
    /\ attempts = max_retries + 1
    /\ result.kind = "Err"
    /\ result.err.kind = "Parse"

\* C9 as stated: the number of failure reports equals the number of failed
\* attempts, in every run, also when all max_retries+1 attempts fail.
C9_EveryFailedAttemptReported ==
    Len(log) = Cardinality(Failed(outcomes))

\* C9 amended: every failed attempt that is followed by another attempt is
\* reported with its error and the delay before that next attempt; the
\* reports number min(failed attempts, max_retries): the last failure of a
\* run whose max_retries+1 attempts all fail is returned, not reported.
C9_FailuresBeforeRetryReported ==
    /\ Len(log) = retries
    /\ Len(log) = Min(Cardinality(Failed(outcomes)), max_retries)
    /\ \A i \in DOMAIN log : log[i].delay = BackoffDelay(i)
    /\ rpc = "sleep" =>
          /\ Last(log).err = lastOutcome.err
          /\ wake - Last(log).delay <= now

C9_Witness ==
    /\ rpc = "done"
    /\ max_retries >= 2
    /\ result.kind = "Err"
    /\ Len(log) = max_retries
    /\ Cardinality(Failed(outcomes)) = max_retries + 1

\* C10: for every issue time and every expires_in above the 10-second
\* leeway the expiry is issue time + (expires_in - 10) seconds exactly;
\* for expires_in = 80000 it is issue time + 79990.
C10_ExpiryIsIssuePlusLifetimeLessLeeway ==
    (expiryOut # NotCalculated /\ expiryIn > 10) =>
        /\ ~expiryOut.panicked
        /\ expiryOut.instant - expiryNow = expiryIn - 10
        /\ expiryIn = 80000 => expiryOut.instant - expiryNow = 79990

C10_Witness ==
    /\ expiryIn = 80000
    /\ expiryNow > 0
    /\ expiryOut = [panicked |-> FALSE, instant |-> expiryNow + 79990]

\* C11: for every expires_in <= 10 (zero and negative values included) the
\* expiry computation does not underflow, wrap or panic: the remaining
\* lifetime is clamped to zero and the expiry equals the issue time.
C11_ShortLifetimeClampsToZero ==
    (expiryOut # NotCalculated /\ expiryIn <= leeway_seconds) =>
        /\ ~expiryOut.panicked
        /\ expiryOut.instant = expiryNow

\* C12: every write of the cell is a step of its scheduler task made under
\* the write guard with no read guard out, and a write begins only when the
\* previous one is complete: writes never overlap.
C12_WritesBySchedulerInOrder ==
    [][/\ keycloak_token' # keycloak_token =>
             /\ writeLocked /\ writeLocked'
             /\ ReadGuards = 0
             /\ pc \in {"store_access", "store_expiry"}
       /\ (pc = "wlock" /\ pc' = "store_access") =>
             /\ ~writeLocked
             /\ keycloak_token = post]_vars

\* the second write of the cell is under way, consumers reading around it
C12_Witness ==
    /\ pc = "store_expiry"
    /\ pre.access_token >= 1
    /\ keycloak_token.access_token = pre.access_token + 1

\* C13: reads are linearizable with respect to the order of writes.
\* A read returns the token of a write that was complete when the read
\* began or of a later one, never the token of a write that is not yet
\* complete when the read returns, and the latest complete write only moves
\* forward: so a read that begins after the k-th write is complete returns
\* write k or later, and a read that begins after another read returned
\* write k (complete by then) returns write k or later too.
C13_ReadsLinearizable ==
    /\ [](\A c \in Consumers :
            cpc[c] = "full" =>
                /\ cstart[c] <= cval[c].access_token
                /\ cval[c].access_token <= LastCompleteWrite)
    /\ [][LastCompleteWrite' >= LastCompleteWrite]_vars

\* a read that began after write 1 was complete is complete, while the
\* scheduler waits to make the next write
C13_Witness ==
    \E c \in Consumers :
        /\ cpc[c] = "full"
        /\ cstart[c] >= 1
        /\ pc = "wlock"

\* C14: the stored expiry plus the 10-second leeway is never later than the
\* moment the provider's expires_in period ends, also when the response
\* takes time to arrive: a token found unexpired stays valid at the provider
\* for at least 10 more seconds.
C14_LeewayHoldsAtProvider ==
    (acqPc = "done" /\ acqResult.kind = "Ok") =>
        acqResult.token.expiry + leeway_seconds
            <= acqIssuedAt + acqResp.body.expires_in

\* C15: a response whose status is not 200 yields a transport error that
\* carries the status observed and no token, whatever the body holds.
C15_Non200IsStatusError ==
    (acqPc = "done" /\ acqResp.kind = "http" /\ acqResp.status # StatusOK) =>
        /\ acqResult.kind = "Err"
        /\ acqResult.err.kind = "Status"
        /\ acqResult.err.status = acqResp.status
        /\ acqResult.token = NoToken

\* a 500 whose body would have parsed
C15_Witness ==
    /\ acqPc = "done"
    /\ acqResp.kind = "http"
    /\ acqResp.status = 500
    /\ acqResp.body.has_expires_in
    /\ acqResult.err = [kind |-> "Status", status |-> 500]

\* C16: a 200 whose body does not parse into {access_token, expires_in}
\* (expires_in missing) yields a parse error that contains the raw body, and
\* no token.
C16_UnparseableBodyIsParseError ==
    (/\ acqPc = "done"
     /\ acqResp.kind = "http"
     /\ acqResp.status = StatusOK
     /\ ~acqResp.body.has_expires_in) =>
        /\ acqResult.kind = "Err"
        /\ acqResult.err.kind = "Parse"
        /\ acqResult.err.raw = acqResp.body
        /\ acqResult.token = NoToken

C16_Witness ==
    /\ acqPc = "done"
    /\ acqResp.status = StatusOK
    /\ ~acqResp.body.has_expires_in
    /\ acqResp.body.access_token = 1
    /\ acqResult.err.kind = "Parse"
    /\ acqResult.err.raw.access_token = 1

\* C17: for two JSON objects a and b the merge succeeds with an object whose
\* keys are the union of the keys of a and of b; a key of b has b's value, a
\* key of a alone has a's value.
C17_MergeUnionSecondWins ==
    (/\ mergeOut # NotMerged
     /\ mergeA.type = "object"
     /\ mergeB.type = "object") =>
        /\ mergeOut.kind = "Ok"
        /\ mergeOut.value.type = "object"
        /\ DOMAIN mergeOut.value.map = DOMAIN mergeA.map \cup DOMAIN mergeB.map
        /\ \A k \in DOMAIN mergeB.map : mergeOut.value.map[k] = mergeB.map[k]
        /\ \A k \in DOMAIN mergeA.map \ DOMAIN mergeB.map :
               mergeOut.value.map[k] = mergeA.map[k]

\* the colliding unit test: {foo: bar} and {foo: boom, baz: bing}
C17_Witness ==
    /\ mergeA = JObject([k \in {"foo"} |-> JString("bar")])
    /\ mergeB = JObject([k \in {"foo", "baz"} |->
                            IF k = "foo" THEN JString("boom") ELSE JString("bing")])
    /\ mergeOut.kind = "Ok"
    /\ mergeOut.value.map["foo"] = JString("boom")
    /\ mergeOut.value.map["baz"] = JString("bing")

\* C18: when a or b is not an object the merge returns an error and no merged
\* value; when exactly one of them is not an object the error names that one.
C18_NonObjectIsError ==
    (/\ mergeOut # NotMerged
     /\ (mergeA.type # "object" \/ mergeB.type # "object")) =>
        /\ mergeOut.kind = "Err"
        /\ mergeOut.value = NoValue
        /\ (mergeA.type = "object") =>
               mergeOut.message =
                   "value required to be object to merge. Instead got "
                       \o Pretty(mergeB)
        /\ (mergeB.type = "object") =>
               mergeOut.message =
                   "value required to be object to merge. Instead got "
                       \o Pretty(mergeA)

\* the unit test with the string "foo" first and an object second
C18_Witness ==
    /\ mergeA = JString("foo")
    /\ mergeB.type = "object"
    /\ mergeOut.message =
           "value required to be object to merge. Instead got \"foo\""

\* the retry handed an error to the scheduler and the scheduler has left it
SchedulerFailed == result.kind = "Err" /\ pc # "retrying"

\* C19: once a refresh has failed with the retries exhausted, the scheduler
\* stays where it is for ever: it takes no further tick, makes no further
\* call, does not write the token cell and does not invoke the callback.
C19_FailedIsTerminal ==
    [][SchedulerFailed =>
           /\ pc' = pc /\ alive' = alive
           /\ ts' = ts /\ nextTick' = nextTick
           /\ UNCHANGED localVars
           /\ UNCHANGED retryVars
           /\ UNCHANGED cellVars
           /\ UNCHANGED histVars
           /\ cbArg' = cbArg /\ tickStats' = tickStats]_vars

\* retries exhausted, and a tick has been due for a while
C19_Witness ==
    /\ Exhausted
    /\ attempts = scheduler_max_retries + 1
    /\ alive
    /\ nextTick < now

\* C20: when the rotation callback is invoked the write of the new token is
\* complete and the write lock is released, and a consumer read that begins
\* after the callback has started returns the token the callback was given
\* or a later one, never the one that was replaced.
C20_StoredAndUnlockedBeforeCallback ==
    /\ [](pc = "cb_running" =>
             /\ ~writeLocked
             /\ keycloak_token = cbArg
             /\ LastCompleteWrite = cbArg.access_token)
    /\ [][\A c \in Consumers :
             (cbArg # NoToken /\ cpc[c] = "idle" /\ cpc'[c] # "idle") =>
                 cval'[c].access_token >= cbArg.access_token]_vars

\* a consumer holds the second token, read from a cell that already had it,
\* while the callback for that token is running
C20_Witness ==
    \E c \in Consumers :
        /\ pc = "cb_running"
        /\ cbArg.access_token = 2
        /\ ~writeLocked
        /\ cpc[c] = "full"
        /\ cstart[c] = 2
        /\ cval[c].access_token = 2

\* C21: under fair scheduling, once an acquisition attempt of a refresh has
\* succeeded with a token, eventually the cell holds that token, the
\* callback has been invoked with it and the scheduler waits for the next
\* tick.
C21_RefreshEventuallyCompletes ==
    \A k \in 1..MaxTokens :
        (/\ pc = "retrying"
         /\ rpc = "done"
         /\ result.kind = "Ok"
         /\ result.token.access_token = k)
            ~> (/\ pc = "wait_tick"
                /\ ~writeLocked
                /\ keycloak_token.access_token = k
                /\ cbArg = keycloak_token)

\* a refresh whose second attempt succeeded has run to its end
C21_Witness ==
    /\ pc = "wait_tick"
    /\ tickStats.calls = 2
    /\ tickStats.cbs = 1
    /\ keycloak_token.access_token = 1
    /\ cbArg = keycloak_token

\* C22: the scheduler has at most one refresh in flight: a tick is taken
\* only when the task waits for one, with no acquisition running and the
\* cell unlocked; an acquisition starts only from the tick being processed,
\* and runs only while the task awaits it. Ticks that fall due in the
\* meantime wait.
C22_OneRefreshInFlight ==
    [][/\ nextTick' # nextTick =>
              /\ pc = "wait_tick" /\ pc' = "read_expiry"
              /\ rpc = "idle"
              /\ ~writeLocked
       /\ (rpc = "idle" /\ rpc' # "idle") =>
              /\ pc = "call_retry" /\ pc' = "retrying"
              /\ ~tickStats.retry
       /\ rpc' # "idle" => pc' \in {"retrying", "panicked"}]_vars

\* a tick has fallen due while the refresh is sleeping before a retry
C22_Witness ==
    /\ pc = "retrying"
    /\ rpc = "sleep"
    /\ retries >= 1
    /\ nextTick <= now

ErrorKinds == {"Connect", "Status", "Parse"}

\* C23: every kind of failure of an attempt (connection failure, non-200
\* status, unparseable body) is followed by a wait for another attempt as
\* long as fewer than max_retries+1 attempts have been made; the retry ends
\* with an error only when the attempts are used up.
C23_AllErrorsRetried ==
    /\ [][(/\ rpc = "exchange" /\ rpc' # "exchange"
           /\ lastOutcome'.kind = "Err"
           /\ attempts < max_retries + 1) =>
              /\ lastOutcome'.err.kind \in ErrorKinds
              /\ rpc' = "sleep"
              /\ retries' = retries + 1
              /\ result' = result]_vars
    /\ []((rpc = "done" /\ result.kind = "Err") => attempts = max_retries + 1)
    /\ [][(rpc = "sleep" /\ rpc' # "sleep") =>
              (rpc' = "exchange" /\ attempts' = attempts + 1)]_vars

\* one failure of each kind has been retried and a fourth attempt is running
C23_Witness ==
    /\ rpc = "exchange"
    /\ attempts = 4
    /\ Len(log) = 3
    /\ {log[i].err.kind : i \in 1..3} = ErrorKinds

\* C24 as stated: the first attempt is made with no delay and the delay
\* before every later attempt is strictly greater than the one before it,
\* for every attempt up to max_retries+1.
C24_DelaysStrictlyIncrease ==
    /\ Len(boDelays) >= 1 => boDelays[1] = 0
    /\ \A i \in 1..(Len(boDelays) - 1) : boDelays[i + 1] > boDelays[i]

\* C24: the first attempt is made with no delay, the first retry after
\* min_delay, and each later delay is the double of the one before it capped
\* at max_delay: strictly greater while the previous delay is below the cap,
\* equal to it from then on.
C24_DelaysDoubleUpToCap ==
    /\ Len(boDelays) <= boMaxTimes + 1
    /\ Len(boDelays) >= 1 => boDelays[1] = 0
    /\ Len(boDelays) >= 2 => boDelays[2] = min_delay
    /\ \A i \in 2..(Len(boDelays) - 1) :
          /\ boDelays[i + 1] = Min(backoff_factor * boDelays[i], max_delay)
          /\ boDelays[i] < max_delay => boDelays[i + 1] > boDelays[i]
          /\ boDelays[i] = max_delay => boDelays[i + 1] = max_delay

\* the cap has been reached and the delay has stopped growing
C24_Witness ==
    /\ Len(boDelays) >= 9
    /\ boDelays[7] = 32
    /\ boDelays[8] = max_delay
    /\ boDelays[9] = max_delay

\* C25: when every acquisition attempt of a tick has failed, the cell is as
\* the tick found it: it holds the previous token with the previous expiry,
\* the write lock has not been taken in that tick and the callback has not
\* been invoked.
C25_FailedRefreshLeavesCell ==
    (rpc = "done" /\ result.kind = "Err") =>
        /\ pc \in {"retrying", "panicked"}
        /\ ~writeLocked
        /\ keycloak_token = [access_token |-> old_access_token,
                             expiry |-> expiry]
        /\ keycloak_token = post
        /\ tickStats.writes = 0
        /\ tickStats.cbs = 0

\* all four attempts of the tick failed and the task is gone; the cell still
\* has the initial token
C25_Witness ==
    /\ Exhausted
    /\ tickStats.calls = scheduler_max_retries + 1
    /\ keycloak_token.access_token = 0
    /\ keycloak_token.expiry = expiry
    /\ tickStats.writes = 0

\* C26: a poll of the watcher requests the stop of the server exactly when
\* it reads a last-modified time strictly greater than the baseline; a poll
\* that cannot read the time requests no stop, and the watcher polls again
\* after it.
C26_StopIffModifiedAfterBaseline ==
    \A i \in 1..Len(polls) :
        /\ polls[i].stop <=>
              /\ polls[i].read.kind = "Ok"
              /\ polls[i].read.secs > applied_config_last_modified
        /\ polls[i].read.kind = "Err" => (~polls[i].stop /\ polls[i].again)

\* a poll that could not read the folder, then one that read the baseline
\* itself, then one that read a later time and requested the stop
C26_Witness ==
    /\ Len(polls) = 3
    /\ applied_config_last_modified = 1
    /\ polls[1].read.kind = "Err" /\ ~polls[1].stop
    /\ polls[2].read = [kind |-> "Ok", secs |-> 1] /\ ~polls[2].stop
    /\ polls[3].read = [kind |-> "Ok", secs |-> 2] /\ polls[3].stop

====
